---- MODULE Spec2Model ----
(***************************************************************************)
(* AeroOps Radar (src/app.py): the acquisition function get_live_flights   *)
(* behind its st.cache_data(ttl=30) wrapper, the weather lookup            *)
(* get_weather, and the telemetry / delay-risk block of the script.        *)
(*                                                                         *)
(* Values.  A JSON / pandas cell is a tagged record: Num(n), Str(s) or     *)
(* Null (JSON null, Python None, pandas NaN).  A string is the sequence of *)
(* its Unicode code points, so that str.strip and int formatting are       *)
(* computed and not assumed.                                               *)
(*                                                                         *)
(* Units.  The feed's numbers are integers here, and the reals compared    *)
(* with a threshold are kept as scaled integers (no integer velocity or    *)
(* altitude comes near enough to a threshold for rounding to matter); the  *)
(* ETA is computed in double arithmetic, as the script computes it:        *)
(*   velocity        m/s                                                   *)
(*   vel_kmh         tenths of km/h   (velocity * 3.6  = velocity * 36/10) *)
(*   baro_altitude   metres                                                *)
(*   altitude_ft     1/25000 ft  (metres * 3.28084 = metres * 82021/25000) *)
(*   dist_km         km, a double   (geodesic(...).km is a float)          *)
(*   wind_speed_10m  tenths of km/h,  precipitation  tenths of mm          *)
(*   temperature_2m  tenths of a degree, latitude/longitude tenths of deg. *)
(***************************************************************************)
EXTENDS Integers, Sequences, FiniteSets, TLC

VARIABLES
    \* ---- acquisition: get_live_flights behind st.cache_data ----
    feed,        \* what the OpenSky endpoint answers (would answer) at the last call
    cache,       \* the st.cache_data entry of get_live_flights
    age,         \* seconds since the entry was stored, saturating at TTL
    sinceCall,   \* seconds since the previous call, saturating at TTL
    ret,         \* (df_voos, is_real_data) of the last call
    called,      \* get_live_flights has been called at least once
    hit,         \* the last call was served from the cache
    attempts,    \* requests.get calls issued by the last call
    raised,      \* the last call propagated an exception to the script
    \* ---- evaluation: lines 181-227 of the script ----
    pc,          \* "selected" -> "weather" -> "done" | "raised"
    dado,        \* the selected row
    dist_km,     \* geodesic(pos_aviao, pos_dest).km
    resp,        \* what the Open-Meteo endpoint answers
    clima_dest,
    minutos_restantes,
    risco_score,
    fatores,
    exc          \* the exception that aborted the evaluation, or "none"

acqVars == <<feed, cache, age, sinceCall, ret, called, hit, attempts, raised>>
evalVars == <<pc, dado, dist_km, resp, clima_dest, minutos_restantes,
              risco_score, fatores, exc>>
vars == <<feed, cache, age, sinceCall, ret, called, hit, attempts, raised,
          pc, dado, dist_km, resp, clima_dest, minutos_restantes,
          risco_score, fatores, exc>>

(***************************************************************************)
(* Bounds of the model.                                                    *)
(***************************************************************************)
MaxRecords == 2     \* records in one feed payload
MaxSeed == 2        \* distinct outcomes of the random draws of the fallback
TickStep == 15      \* seconds by which the clock advances in one step

(***************************************************************************)
(* Program constants.                                                      *)
(***************************************************************************)
TTL == 30           \* @st.cache_data(ttl=30)
NumCols == 17       \* len(cols)
NumFake == 20       \* range(20)
ETA_SENTINEL == 999 \* minutos_restantes = 999

(***************************************************************************)
(* Cells.                                                                  *)
(***************************************************************************)
Null == [t |-> "null"]
Num(n) == [t |-> "num", n |-> n]
Str(s) == [t |-> "str", s |-> s]
IsNull(x) == x.t = "null"
IsNum(x) == x.t = "num"
IsStr(x) == x.t = "str"

Min(a, b) == IF a <= b THEN a ELSE b

\* The code points str.isspace() holds of: tab to carriage return, the
\* separators FS GS RS US, space, NEL, no-break space, and the Unicode
\* spaces and line / paragraph separators.
Whitespace ==
    (9..13) \cup (28..32) \cup {133, 160, 5760} \cup (8192..8202)
    \cup {8232, 8233, 8239, 8287, 12288}

\* str.strip(): leading and trailing whitespace removed.
RECURSIVE LStrip(_)
LStrip(s) ==
    IF s # <<>> /\ Head(s) \in Whitespace THEN LStrip(Tail(s)) ELSE s
RECURSIVE RStrip(_)
RStrip(s) ==
    IF s # <<>> /\ s[Len(s)] \in Whitespace
    THEN RStrip(SubSeq(s, 1, Len(s) - 1)) ELSE s
Strip(s) == RStrip(LStrip(s))

\* Series.str.strip(): strings are stripped, missing values stay missing.
StrStrip(x) == IF IsStr(x) THEN Str(Strip(x.s)) ELSE Null

\* f"{n}" of a non-negative int.
DigitChar(d) == 48 + d     \* "0" is code point 48
RECURSIVE Digits(_)
Digits(n) == IF n < 10 THEN <<DigitChar(n)>>
             ELSE Digits(n \div 10) \o <<DigitChar(n % 10)>>

RECURSIVE SelectRows(_, _)
SelectRows(rows, keep) ==
    IF rows = <<>> THEN <<>>
    ELSE (IF keep[1] THEN <<Head(rows)>> ELSE <<>>)
         \o SelectRows(Tail(rows), Tail(keep))

(***************************************************************************)
(* The OpenSky feed.  A raw record is one row of data['states']; of its    *)
(* 17 positional fields the model keeps the ones the code reads (callsign, *)
(* longitude, latitude, baro_altitude, velocity) and the row's width.      *)
(***************************************************************************)
Raw(w, cs, lat, lon, alt, vel) ==
    [width |-> w, callsign |-> cs, latitude |-> lat, longitude |-> lon,
     baro_altitude |-> alt, velocity |-> vel]

\* Callsigns, as code points.
GLO == <<71, 76, 79>>                       \* "GLO"
GLO1 == GLO \o <<49, 32, 32>>               \* "GLO1  "
TAM2 == <<9, 84, 65, 77, 50, 10>>           \* "\tTAM2\n"
Blank == <<32, 9, 160>>                     \* " \t\u00a0"
AZU3 == <<65, 90, 85, 51>>                  \* "AZU3"
GLO4 == GLO \o <<52>>                       \* "GLO4"
GLO5 == GLO \o <<53>>                       \* "GLO5"
GLO6 == GLO \o <<54>>                       \* "GLO6"
GLO7 == GLO \o <<55>>                       \* "GLO7"

RawRecords ==
    { Raw(17, Str(GLO1), Num(-235), Num(-466), Num(10000), Num(250)),
      Raw(17, Str(TAM2), Num(-229), Num(-431), Num(9000), Num(150)),
      Raw(17, Str(Blank), Num(-200), Num(-440), Num(11000), Num(240)),
      Raw(17, Null, Num(-190), Num(-450), Num(10500), Num(230)),
      Raw(17, Str(AZU3), Num(-236), Num(-465), Null, Num(0)),
      Raw(17, Str(GLO4), Num(-210), Num(-470), Str(<<97, 98, 99>>), Num(250)),
      Raw(17, Str(GLO5), Num(-220), Num(-480), Num(9500), Null),
      Raw(17, Str(GLO6), Null, Num(-460), Num(9800), Num(220)),
      Raw(16, Str(GLO7), Num(-225), Num(-455), Num(10200), Num(245)) }

RECURSIVE SeqsUpTo(_, _)
SeqsUpTo(S, n) ==
    IF n = 0 THEN {<<>>}
    ELSE LET shorter == SeqsUpTo(S, n - 1)
         IN  shorter \cup {Append(q, r) : q \in shorter, r \in S}

Payloads == SeqsUpTo(RawRecords, MaxRecords)

\* The body of an HTTP answer: not JSON, JSON without 'states', 'states': null,
\* or 'states': a list of records.
JsonBody(isJson, hasStates, isNull, states) ==
    [json |-> isJson, has_states |-> hasStates, states_null |-> isNull,
     states |-> states]
NotJson == JsonBody(FALSE, FALSE, FALSE, <<>>)
NoStatesKey == JsonBody(TRUE, FALSE, FALSE, <<>>)
StatesNull == JsonBody(TRUE, TRUE, TRUE, <<>>)
StatesList(p) == JsonBody(TRUE, TRUE, FALSE, p)

Timeout == [kind |-> "timeout", status |-> 0, body |-> NotJson]
ConnectionError == [kind |-> "connection_error", status |-> 0, body |-> NotJson]
Http(status, body) == [kind |-> "http", status |-> status, body |-> body]

OutcomesOver(payloads) ==
    {Timeout, ConnectionError, Http(429, NotJson), Http(500, NotJson),
     Http(200, NotJson), Http(200, NoStatesKey), Http(200, StatesNull)}
    \cup {Http(200, StatesList(p)) : p \in payloads}

\* Every answer the model feeds to the function body.
FeedOutcomes == OutcomesOver(Payloads)

\* The answers fed to the cached function: payloads over three of the records
\* (one that is kept, one that is filtered out, one of a wrong type).
CachedRecords ==
    {r \in RawRecords : r.callsign \in {Str(GLO1), Str(AZU3), Str(GLO4)}}
CachedFeedOutcomes == OutcomesOver(SeqsUpTo(CachedRecords, MaxRecords))

(***************************************************************************)
(* get_live_flights, lines 70-89: the try block.                           *)
(***************************************************************************)
Return(df) == [k |-> "return", exc |-> "none", df |-> df]
Raise(e) == [k |-> "raise", exc |-> e, df |-> <<>>]
FallThrough == [k |-> "fall", exc |-> "none", df |-> <<>>]

\* pd.DataFrame(data['states'], columns=cols): rows are padded to the widest
\* one, and the widest one must have len(cols) fields.
RECURSIVE MaxWidth(_)
MaxWidth(states) ==
    IF states = <<>> THEN 0
    ELSE LET m == MaxWidth(Tail(states))
         IN  IF Head(states).width >= m THEN Head(states).width ELSE m

FrameOk(states) == states = <<>> \/ MaxWidth(states) = NumCols

\* df['callsign'] = df['callsign'].str.strip()
Cleaned(states) ==
    [i \in 1..Len(states) |->
        [callsign |-> StrStrip(states[i].callsign),
         latitude |-> states[i].latitude,
         longitude |-> states[i].longitude,
         baro_altitude |-> states[i].baro_altitude,
         velocity |-> states[i].velocity]]

\* df[col] > c on a whole column: a str cell makes the comparison raise
\* TypeError; a missing cell compares False.
ColumnHasStr(df, col) == \E i \in 1..Len(df) : IsStr(df[i][col])
CellGt(x, c) == IsNum(x) /\ x.n > c

\* (df['baro_altitude'] > 2000) & (df['velocity'] > 50)
FlightMask(df) ==
    [i \in 1..Len(df) |->
        CellGt(df[i].baro_altitude, 2000) /\ CellGt(df[i].velocity, 50)]

\* df.dropna(subset=['latitude', 'longitude'])
PositionMask(df) ==
    [i \in 1..Len(df) |-> ~IsNull(df[i].latitude) /\ ~IsNull(df[i].longitude)]

Filtered(df) ==
    LET flying == SelectRows(df, FlightMask(df))
    IN  SelectRows(flying, PositionMask(flying))

\* Mutant: the frame is returned as Live even when the filters emptied it.
ReturnAlways(df) == Return(df)

\* if not df.empty: return df, True
ReturnIfNotEmpty(df) == IF df # <<>> THEN Return(df) ELSE FallThrough

\* Lines 82-87, on the cleaned frame.
TryFrame(df) ==
    IF ColumnHasStr(df, "baro_altitude") \/ ColumnHasStr(df, "velocity")
    THEN Raise("TypeError")
    ELSE ReturnIfNotEmpty(Filtered(df))

TryBlock(o) ==
    IF o.kind = "timeout" THEN Raise("Timeout")
    ELSE IF o.kind = "connection_error" THEN Raise("ConnectionError")
    ELSE IF o.status # 200 THEN FallThrough
    ELSE IF ~o.body.json THEN Raise("JSONDecodeError")
    ELSE IF ~o.body.has_states THEN Raise("KeyError")
    ELSE IF o.body.states_null THEN Raise("Exception")
    ELSE IF ~FrameOk(o.body.states) THEN Raise("ValueError")
    ELSE TryFrame(Cleaned(o.body.states))

\* Mutant: except requests.RequestException -- only transport errors are caught.
CaughtRequestErrorsOnly(e) == e \in {"Timeout", "ConnectionError"}

\* except: pass -- a bare except catches every exception.
Caught(e) == TRUE

(***************************************************************************)
(* get_live_flights, lines 91-107: the simulated fallback.  The draws of   *)
(* the random module are nondeterministic; seed indexes the draw sequences *)
(* the model enumerates, each value inside the range the code draws from.  *)
(***************************************************************************)
FakeRow(seed, i) ==
    [callsign |-> Str(GLO \o Digits(1000 + ((seed * 1234 + i * 777) % 9000))),
     latitude |-> Num(-235 + ((seed * 37 + i * 11) % 101) - 50),
     longitude |-> Num(-466 + ((seed * 53 + i * 7) % 101) - 50),
     velocity |-> Num(200 + ((seed * 17 + i * 5) % 61)),
     baro_altitude |-> Num(8000 + ((seed * 291 + i * 101) % 3001)),
     origin_country |-> Str(<<66, 114, 97, 122, 105, 108>>),
     true_track |-> Num((seed * 97 + i * 31) % 361)]

dados_fake(seed) == [i \in 1..NumFake |-> FakeRow(seed, i)]

Result(df, isReal) == [raised |-> FALSE, df |-> df, is_real |-> isReal, requests |-> 1]
Propagated == [raised |-> TRUE, df |-> <<>>, is_real |-> FALSE, requests |-> 1]

\* The whole function body: one requests.get, then either the live frame or
\* the fallback.
AfterTry(t, seed) ==
    IF t.k = "return" THEN Result(t.df, TRUE)
    ELSE IF t.k = "raise" /\ ~Caught(t.exc) THEN Propagated
    ELSE Result(dados_fake(seed), FALSE)

get_live_flights(o, seed) == AfterTry(TryBlock(o), seed)

(***************************************************************************)
(* @st.cache_data(ttl=30): an entry is served while it is younger than the *)
(* ttl, counted from the moment it was stored; reads do not renew it, and  *)
(* a call that raises stores nothing.                                      *)
(***************************************************************************)
NoEntry == [valid |-> FALSE, df |-> <<>>, is_real |-> FALSE]
Entry(df, isReal) == [valid |-> TRUE, df |-> df, is_real |-> isReal]

\* Mutant: only Live results are kept in the cache.
CacheHitLiveOnly(c, a) == c.valid /\ a < TTL /\ c.is_real

\* Mutant: an entry never expires.
CacheHitNoExpiry(c, a) == c.valid

CacheHit(c, a) == c.valid /\ a < TTL

NoReturn == [df |-> <<>>, is_real |-> FALSE]

\* df_voos, is_real_data = get_live_flights()   (one run of the script)
CallGetLiveFlights(o, seed) ==
    /\ feed' = o
    /\ called' = TRUE
    /\ sinceCall' = 0
    /\ IF CacheHit(cache, age)
       THEN /\ hit' = TRUE
            /\ attempts' = 0
            /\ raised' = FALSE
            /\ ret' = [df |-> cache.df, is_real |-> cache.is_real]
            /\ UNCHANGED <<cache, age>>
       ELSE \E r \in {get_live_flights(o, seed)} :
                /\ hit' = FALSE
                /\ attempts' = r.requests
                /\ raised' = r.raised
                /\ ret' = IF r.raised THEN NoReturn
                          ELSE [df |-> r.df, is_real |-> r.is_real]
                /\ cache' = IF r.raised THEN NoEntry ELSE Entry(r.df, r.is_real)
                /\ age' = IF r.raised THEN TTL ELSE 0
    /\ UNCHANGED evalVars

\* The function body called directly, with no cache in front of it.
Fetch(o, seed) ==
    /\ ~called
    /\ feed' = o
    /\ called' = TRUE
    /\ hit' = FALSE
    /\ \E r \in {get_live_flights(o, seed)} :
            /\ attempts' = r.requests
            /\ raised' = r.raised
            /\ ret' = IF r.raised THEN NoReturn
                      ELSE [df |-> r.df, is_real |-> r.is_real]
    /\ UNCHANGED <<cache, age, sinceCall>>
    /\ UNCHANGED evalVars

\* Time passes between two runs of the script.
Tick ==
    /\ age < TTL \/ sinceCall < TTL
    /\ age' = Min(age + TickStep, TTL)
    /\ sinceCall' = Min(sinceCall + TickStep, TTL)
    /\ UNCHANGED <<feed, cache, ret, called, hit, attempts, raised>>
    /\ UNCHANGED evalVars

(***************************************************************************)
(* The Open-Meteo feed and get_weather, lines 109-116.  A JSON object is a *)
(* Dict; a key the object does not hold is the cell Missing.               *)
(***************************************************************************)
Missing == [t |-> "missing"]
Dict(temp, precip, wind) ==
    [t |-> "dict", temperature_2m |-> temp, precipitation |-> precip,
     wind_speed_10m |-> wind]
IsDict(x) == x.t = "dict"
HasKey(d, k) == d[k].t # "missing"

WeatherBody(isJson, hasCurrent, current) ==
    [json |-> isJson, has_current |-> hasCurrent, current |-> current]
WNotJson == WeatherBody(FALSE, FALSE, Null)
WNoCurrent == WeatherBody(TRUE, FALSE, Null)
WCurrent(c) == WeatherBody(TRUE, TRUE, c)

WTimeout == [kind |-> "timeout", status |-> 0, body |-> WNotJson]
WConnectionError == [kind |-> "connection_error", status |-> 0, body |-> WNotJson]
WHttp(status, body) == [kind |-> "http", status |-> status, body |-> body]

WindCells == {Num(100), Num(250), Num(251), Null, Missing}
RainCells == {Num(0), Num(5), Num(6), Null, Missing}
CurrentObjects ==
    {Null} \cup {Dict(Num(220), p, w) : p \in RainCells, w \in WindCells}
WeatherBodies == {WNotJson, WNoCurrent} \cup {WCurrent(c) : c \in CurrentObjects}
WeatherOutcomes ==
    {WTimeout, WConnectionError}
    \cup {WHttp(st, b) : st \in {200, 500}, b \in WeatherBodies}

\* return r.json()['current']   (the status code is not looked at)
WeatherTry(w) ==
    IF w.kind = "timeout" THEN Raise("Timeout")
    ELSE IF w.kind = "connection_error" THEN Raise("ConnectionError")
    ELSE IF ~w.body.json THEN Raise("JSONDecodeError")
    ELSE IF ~w.body.has_current THEN Raise("KeyError")
    ELSE [k |-> "return", exc |-> "none", df |-> w.body.current]

\* except: return {...}   -- again a bare except.
WeatherCaught(e) == TRUE

WeatherFallback == Dict(Num(250), Num(0), Num(100))

WeatherAfterTry(t) ==
    IF t.k = "return" THEN [raised |-> FALSE, value |-> t.df]
    ELSE IF WeatherCaught(t.exc) THEN [raised |-> FALSE, value |-> WeatherFallback]
    ELSE [raised |-> TRUE, value |-> Null]

get_weather(w) == WeatherAfterTry(WeatherTry(w))

(***************************************************************************)
(* IEEE-754 double arithmetic, as far as the script needs it.  Python      *)
(* floats are doubles: the result of *, / and of a literal is the exact    *)
(* value rounded to 53 significant bits, ties to even.  The exact values   *)
(* do not fit TLC's integers, so a natural number is a sequence of 15-bit  *)
(* limbs, least significant first, and a positive double is a pair         *)
(* [m, e] with 2^52 <= m < 2^53, standing for m * 2^e.                     *)
(***************************************************************************)
Limb == 2 ^ 15

RECURSIVE BNorm(_)
BNorm(a) ==
    IF a # <<>> /\ a[Len(a)] = 0 THEN BNorm(SubSeq(a, 1, Len(a) - 1)) ELSE a

RECURSIVE BFromInt(_)
BFromInt(n) == IF n = 0 THEN <<>> ELSE <<n % Limb>> \o BFromInt(n \div Limb)

RECURSIVE BToInt(_)
BToInt(a) == IF a = <<>> THEN 0 ELSE a[1] + Limb * BToInt(Tail(a))

LimbAt(a, i) == IF i <= Len(a) THEN a[i] ELSE 0

RECURSIVE BAddFrom(_, _, _, _)
BAddFrom(a, b, i, carry) ==
    IF i > Len(a) /\ i > Len(b)
    THEN (IF carry = 0 THEN <<>> ELSE <<carry>>)
    ELSE <<(LimbAt(a, i) + LimbAt(b, i) + carry) % Limb>>
         \o BAddFrom(a, b, i + 1, (LimbAt(a, i) + LimbAt(b, i) + carry) \div Limb)
BAdd(a, b) == BAddFrom(a, b, 1, 0)

\* a - b, for a >= b
RECURSIVE BSubFrom(_, _, _, _)
BSubFrom(a, b, i, borrow) ==
    IF i > Len(a) THEN <<>>
    ELSE <<(a[i] - LimbAt(b, i) - borrow + Limb) % Limb>>
         \o BSubFrom(a, b, i + 1, IF a[i] - LimbAt(b, i) - borrow < 0 THEN 1 ELSE 0)
BSub(a, b) == BNorm(BSubFrom(a, b, 1, 0))

\* -1, 0, 1 as a < b, a = b, a > b
RECURSIVE BCmpFrom(_, _, _)
BCmpFrom(a, b, i) ==
    IF i = 0 THEN 0
    ELSE IF a[i] < b[i] THEN -1
    ELSE IF a[i] > b[i] THEN 1
    ELSE BCmpFrom(a, b, i - 1)
BCmp(a, b) ==
    IF Len(a) < Len(b) THEN -1
    ELSE IF Len(a) > Len(b) THEN 1
    ELSE BCmpFrom(a, b, Len(a))

\* a * k, for 0 <= k < 2^15
RECURSIVE BMulSmallFrom(_, _, _, _)
BMulSmallFrom(a, k, i, carry) ==
    IF i > Len(a) THEN (IF carry = 0 THEN <<>> ELSE <<carry>>)
    ELSE <<(a[i] * k + carry) % Limb>>
         \o BMulSmallFrom(a, k, i + 1, (a[i] * k + carry) \div Limb)
BMulSmall(a, k) == BNorm(BMulSmallFrom(a, k, 1, 0))

RECURSIVE BMul(_, _)
BMul(a, b) ==
    IF a = <<>> \/ b = <<>> THEN <<>>
    ELSE BAdd(BMulSmall(a, b[1]),
              IF Len(b) = 1 THEN <<>> ELSE <<0>> \o BMul(a, Tail(b)))

RECURSIVE IntBitLen(_)
IntBitLen(n) == IF n = 0 THEN 0 ELSE 1 + IntBitLen(n \div 2)
BBitLen(a) == IF a = <<>> THEN 0 ELSE 15 * (Len(a) - 1) + IntBitLen(a[Len(a)])

Zeros(n) == [i \in 1..n |-> 0]

\* a * 2^n
BShl(a, n) ==
    IF a = <<>> THEN <<>>
    ELSE Zeros(n \div 15) \o BMulSmall(a, 2 ^ (n % 15))

\* a \div 2^k, for 0 <= k < 15
RECURSIVE BShrSmallFrom(_, _, _)
BShrSmallFrom(a, k, i) ==
    IF i > Len(a) THEN <<>>
    ELSE <<(a[i] \div 2 ^ k) + (LimbAt(a, i + 1) % 2 ^ k) * 2 ^ (15 - k)>>
         \o BShrSmallFrom(a, k, i + 1)

\* a \div 2^n
BShr(a, n) ==
    IF n \div 15 >= Len(a) THEN <<>>
    ELSE BNorm(BShrSmallFrom(SubSeq(a, n \div 15 + 1, Len(a)), n % 15, 1))

\* a % 2^n
BLowBits(a, n) == BSub(a, BShl(BShr(a, n), n))

\* The largest k < 2^15 with d * k <= rr, found bit by bit from the top
\* (rr < d * 2^15).
RECURSIVE DigitFrom(_, _, _, _)
DigitFrom(d, rr, k, b) ==
    IF b < 0 THEN k
    ELSE IF BCmp(BMulSmall(d, k + 2 ^ b), rr) <= 0
    THEN DigitFrom(d, rr, k + 2 ^ b, b - 1)
    ELSE DigitFrom(d, rr, k, b - 1)

\* Long division, limb i of n and below still to bring down; rr is the
\* remainder so far with limb i beside it.
RECURSIVE BDivFrom(_, _, _, _, _)
BDivLimb(n, d, i, q, rr, k) ==
    BDivFrom(n, d, i - 1, <<k>> \o q, BSub(rr, BMulSmall(d, k)))
BDivFrom(n, d, i, q, r) ==
    IF i = 0 THEN [q |-> BNorm(q), r |-> r]
    ELSE IF BCmp(BNorm(<<n[i]>> \o r), d) < 0
    THEN BDivFrom(n, d, i - 1, <<0>> \o q, BNorm(<<n[i]>> \o r))
    ELSE BDivLimb(n, d, i, q, BNorm(<<n[i]>> \o r),
                  DigitFrom(d, BNorm(<<n[i]>> \o r), 0, 14))

\* [q, r] with n = q * d + r and r < d
BDivMod(n, d) == BDivFrom(n, d, Len(n), <<>>, <<>>)

Double(m, e) == [m |-> m, e |-> e]

\* The 53-bit significand m, then one more if the bits cut off say so.
RoundUp(m0, rest, half, sticky) ==
    \/ BCmp(rest, half) = 1
    \/ BCmp(rest, half) = 0 /\ (sticky \/ m0[1] % 2 = 1)

Renormalized(m, e) ==
    IF BBitLen(m) = 54 THEN Double(BShr(m, 1), e + 1) ELSE Double(m, e)

RoundCut(p, e, k, sticky) ==
    IF RoundUp(BShr(p, k), BLowBits(p, k), BShl(<<1>>, k - 1), sticky)
    THEN Renormalized(BAdd(BShr(p, k), <<1>>), e + k)
    ELSE Double(BShr(p, k), e + k)

\* The double nearest to p * 2^e (p > 0; sticky: the exact value lies a
\* little above p * 2^e, by less than 2^e, and then p has 55 bits or more).
RoundDouble(p, e, sticky) ==
    IF BBitLen(p) <= 53
    THEN Double(BShl(p, 53 - BBitLen(p)), e - (53 - BBitLen(p)))
    ELSE RoundCut(p, e, BBitLen(p) - 53, sticky)

\* float(n), n > 0
DoubleOfInt(n) == RoundDouble(BFromInt(n), 0, FALSE)

\* x * y
DoubleMul(x, y) == RoundDouble(BMul(x.m, y.m), x.e + y.e, FALSE)

\* x / y: 56 more bits of x.m give a quotient of 56 or 57 bits.
DoubleDivRounded(qr, e) == RoundDouble(qr.q, e, qr.r # <<>>)
DoubleDiv(x, y) ==
    DoubleDivRounded(BDivMod(BShl(x.m, 56), y.m), x.e - y.e - 56)

\* int(x), x > 0
DoubleTrunc(x) ==
    IF x.e >= 0 THEN BToInt(BShl(x.m, x.e)) ELSE BToInt(BShr(x.m, -x.e))

(***************************************************************************)
(* The telemetry and risk block, lines 186-227.                            *)
(***************************************************************************)
\* vel_kmh = dado['velocity'] * 3.6, in tenths of km/h
vel_kmh(d) == d.velocity.n * 36

\* altitude_ft = dado['baro_altitude'] * 3.28084, in 1/25000 ft
altitude_ft(d) == d.baro_altitude.n * 82021

\* The literal 3.6: the double nearest to 36/10.
KmhFactor == DoubleDiv(DoubleOfInt(36), DoubleOfInt(10))

\* 0.0, and the doubles the distance is drawn from: the double nearest to
\* n / d, and the next double below x (x not a power of two).
DoubleZero == Double(<<>>, 0)
DoubleOfRatio(n, d) == DoubleDiv(DoubleOfInt(n), DoubleOfInt(d))
DoubleBelow(x) == Double(BSub(x.m, <<1>>), x.e)

\* Line 194 for velocity > 0: vel_kmh = dado['velocity'] * 3.6, as the double
\* the script holds.
VelKmh(vel) == DoubleMul(DoubleOfInt(vel), KmhFactor)

\* Lines 199, 200 for velocity > 0 and dist_km >= 0:
\* int(dist_km / vel_kmh * 60), each operation a double operation.
\* 0.0 / x and 0.0 * 60 are 0.0.
EtaMinutes(dist, vel) ==
    IF dist = DoubleZero THEN 0
    ELSE DoubleTrunc(DoubleMul(DoubleDiv(dist, VelKmh(vel)), DoubleOfInt(60)))

\* Mutant: the guard tests vel_kmh != 0 instead of vel_kmh > 0; a negative
\* speed then gives the negated quotient, int() cutting towards zero.
ComputeEtaNonZero(dist, vel) ==
    IF vel * 36 # 0
    THEN (IF vel > 0 THEN EtaMinutes(dist, vel) ELSE -EtaMinutes(dist, -vel))
    ELSE ETA_SENTINEL

\* Lines 198-202, from dist_km and dado['velocity'].  vel_kmh > 0 exactly
\* when velocity > 0.
ComputeEta(dist, vel) ==
    IF vel * 36 > 0 THEN EtaMinutes(dist, vel) ELSE ETA_SENTINEL

Risk(e, score, facts) == [exc |-> e, risco_score |-> score, fatores |-> facts]

\* clima_dest[key], then value > limit: the lookup raises on a non-dict or a
\* missing key, the comparison raises on None.
ReadError(clima, key) ==
    IF ~IsDict(clima) THEN "TypeError"
    ELSE IF ~HasKey(clima, key) THEN "KeyError"
    ELSE IF ~IsNum(clima[key]) THEN "TypeError"
    ELSE "none"

\* Lines 209-212: vento > 25
WindRule(r, clima) ==
    IF r.exc # "none" THEN r
    ELSE IF ReadError(clima, "wind_speed_10m") # "none"
    THEN Risk(ReadError(clima, "wind_speed_10m"), r.risco_score, r.fatores)
    ELSE IF clima.wind_speed_10m.n > 250
    THEN Risk("none", r.risco_score + 30,
              Append(r.fatores, <<"Vento Cruzado", clima.wind_speed_10m.n>>))
    ELSE r

\* Mutant: the threshold of the comment on line 214 (> 0 mm) instead of 0.5.
RainRuleAnyRain(r, clima) ==
    IF r.exc # "none" THEN r
    ELSE IF ReadError(clima, "precipitation") # "none"
    THEN Risk(ReadError(clima, "precipitation"), r.risco_score, r.fatores)
    ELSE IF clima.precipitation.n > 0
    THEN Risk("none", r.risco_score + 40,
              Append(r.fatores, <<"Chuva na Pista", clima.precipitation.n>>))
    ELSE r

\* Lines 215-218: chuva > 0.5
RainRule(r, clima) ==
    IF r.exc # "none" THEN r
    ELSE IF ReadError(clima, "precipitation") # "none"
    THEN Risk(ReadError(clima, "precipitation"), r.risco_score, r.fatores)
    ELSE IF clima.precipitation.n > 5
    THEN Risk("none", r.risco_score + 40,
              Append(r.fatores, <<"Chuva na Pista", clima.precipitation.n>>))
    ELSE r

\* Lines 221-223: vel_kmh < 600 and altitude_ft > 20000
CruiseRule(r, vkmh, altft) ==
    IF r.exc # "none" THEN r
    ELSE IF vkmh < 6000 /\ altft > 20000 * 25000
    THEN Risk("none", r.risco_score + 20,
              Append(r.fatores, <<"Velocidade Cruzeiro Baixa">>))
    ELSE r

\* Mutant: the sentinel is not counted as a long flight.
LongFlightRuleSkipsSentinel(r, minutos) ==
    IF r.exc # "none" THEN r
    ELSE IF minutos > 120 /\ minutos # ETA_SENTINEL
    THEN Risk("none", r.risco_score + 10, r.fatores)
    ELSE r

\* Lines 226-227: minutos_restantes > 120
LongFlightRule(r, minutos) ==
    IF r.exc # "none" THEN r
    ELSE IF minutos > 120 THEN Risk("none", r.risco_score + 10, r.fatores)
    ELSE r

\* Lines 205-227: the rules in the order of the script.
RiskRules(clima, vkmh, altft, minutos) ==
    LongFlightRule(
        CruiseRule(RainRule(WindRule(Risk("none", 0, <<>>), clima), clima),
                   vkmh, altft),
        minutos)

\* clima_dest = get_weather(dest_lat, dest_lon)
GetWeather ==
    /\ pc = "selected"
    /\ \E g \in {get_weather(resp)} :
          /\ pc' = IF g.raised THEN "raised" ELSE "weather"
          /\ exc' = IF g.raised THEN "get_weather" ELSE "none"
          /\ clima_dest' = g.value
    /\ UNCHANGED <<dado, dist_km, resp, minutos_restantes, risco_score, fatores>>
    /\ UNCHANGED acqVars

\* Lines 187-227 for the selected row.
Evaluate ==
    /\ pc = "weather"
    /\ \E eta \in {ComputeEta(dist_km, dado.velocity.n)} :
       \E r \in {RiskRules(clima_dest, vel_kmh(dado), altitude_ft(dado), eta)} :
          /\ minutos_restantes' = eta
          /\ risco_score' = r.risco_score
          /\ fatores' = r.fatores
          /\ exc' = r.exc
          /\ pc' = IF r.exc = "none" THEN "done" ELSE "raised"
    /\ UNCHANGED <<dado, dist_km, resp, clima_dest>>
    /\ UNCHANGED acqVars

\* The rows and distances the evaluation is run on.  The distance is a
\* double, whole or not.  At 100 m/s (360.0 km/h) the double just below
\* 240.0 km is a little less than 40 minutes and comes out as 40, and
\* 738.0 km is 123 minutes exactly and comes out as 122; at 52 m/s
\* (187.20000000000002 km/h) 124.8 km is a little less than 40 minutes and
\* comes out as 40.
Velocities == {-1, 0, 52, 60, 100, 166, 167, 250}
Altitudes == {3000, 6095, 6096, 10000}
Distances ==
    {DoubleZero}
    \cup {DoubleOfInt(n) : n \in {78, 100, 399, 738, 1200, 1815, 5000}}
    \cup {DoubleBelow(DoubleOfInt(240)), DoubleOfRatio(624, 5)}
EvalRows == {[velocity |-> Num(v), baro_altitude |-> Num(a)] :
                v \in Velocities, a \in Altitudes}

EvalIdle ==
    /\ pc = "idle"
    /\ dado = [velocity |-> Num(0), baro_altitude |-> Num(0)]
    /\ dist_km = DoubleZero
    /\ resp = WTimeout
    /\ clima_dest = Null
    /\ minutos_restantes = 0
    /\ risco_score = 0
    /\ fatores = <<>>
    /\ exc = "none"

Init ==
    /\ feed = Timeout
    /\ cache = NoEntry
    /\ age = TTL
    /\ sinceCall = TTL
    /\ ret = NoReturn
    /\ called = FALSE
    /\ hit = FALSE
    /\ attempts = 0
    /\ raised = FALSE
    /\ EvalIdle

Next ==
    \/ \E o \in CachedFeedOutcomes, seed \in 1..MaxSeed : CallGetLiveFlights(o, seed)
    \/ Tick

\* The script run after run: get_live_flights behind its cache, and time.
Spec == Init /\ [][Next]_vars

AcqIdle ==
    /\ feed = Timeout
    /\ cache = NoEntry
    /\ age = TTL
    /\ sinceCall = TTL
    /\ ret = NoReturn
    /\ called = FALSE
    /\ hit = FALSE
    /\ attempts = 0
    /\ raised = FALSE

EvalInit ==
    /\ AcqIdle
    /\ pc = "selected"
    /\ dado \in EvalRows
    /\ dist_km \in Distances
    /\ resp \in WeatherOutcomes
    /\ clima_dest = Null
    /\ minutos_restantes = 0
    /\ risco_score = 0
    /\ fatores = <<>>
    /\ exc = "none"

EvalNext == GetWeather \/ Evaluate

\* One aircraft selected: the weather lookup, then the telemetry and the risk.
EvalSpec == EvalInit /\ [][EvalNext]_vars

FetchNext == \E o \in FeedOutcomes, seed \in 1..MaxSeed : Fetch(o, seed)

\* get_live_flights as a function of the feed's answer and the random draws.
FetchSpec == Init /\ [][FetchNext]_vars

(***************************************************************************)
(* Properties.                                                             *)
(***************************************************************************)
Pts(cond, points) == IF cond THEN points ELSE 0

\* A record of the payload that passes the altitude, speed and position filters.
Survives(rec) ==
    /\ IsNum(rec.baro_altitude) /\ rec.baro_altitude.n > 2000
    /\ IsNum(rec.velocity) /\ rec.velocity.n > 50
    /\ ~IsNull(rec.latitude) /\ ~IsNull(rec.longitude)

IsStatesList(o) ==
    /\ o.kind = "http" /\ o.status = 200
    /\ o.body.json /\ o.body.has_states /\ ~o.body.states_null

\* A states list pandas can frame and compare: full-width rows, no str cell.
WellTyped(states) ==
    /\ FrameOk(states)
    /\ \A i \in 1..Len(states) :
          ~IsStr(states[i].baro_altitude) /\ ~IsStr(states[i].velocity)

\* HTTP success with nothing to report.
NoTraffic(o) ==
    /\ o.kind = "http" /\ o.status = 200 /\ o.body.json
    /\ \/ ~o.body.has_states
       \/ o.body.states_null
       \/ /\ WellTyped(o.body.states)
          /\ \A i \in 1..Len(o.body.states) : ~Survives(o.body.states[i])

\* Transport or HTTP failure.
FeedFailing(o) == o.kind # "http" \/ o.status # 200

\* Transport failure, HTTP failure or a malformed payload.
FeedFailure(o) ==
    \/ FeedFailing(o)
    \/ ~o.body.json
    \/ ~o.body.has_states
    \/ (~o.body.states_null /\ ~FrameOk(o.body.states))

\* A row the fallback can have generated.
IsDigit(c) == c \in 48..57
SyntheticRow(row) ==
    /\ IsStr(row.callsign) /\ Len(row.callsign.s) = 7
    /\ SubSeq(row.callsign.s, 1, 3) = GLO
    /\ \A j \in 4..7 : IsDigit(row.callsign.s[j])
    /\ row.latitude.n \in -285..-185
    /\ row.longitude.n \in -516..-416
    /\ row.velocity.n \in 200..260
    /\ row.baro_altitude.n \in 8000..11000
Synthetic(df) ==
    Len(df) = NumFake /\ \A i \in 1..Len(df) : SyntheticRow(df[i])

\* C1: once the evaluation has completed, the risk score is exactly the sum of
\* the points of the rules that match -- 30 for wind > 25 km/h, 40 for
\* precipitation > 0.5 mm, 20 for speed < 600 km/h with altitude > 20000 ft,
\* 10 for ETA > 120 min -- each rule counted on its own, with no cap.
C1_ScoreIsSumOfMatchingRules ==
    pc = "done" =>
        risco_score =
            Pts(clima_dest.wind_speed_10m.n > 250, 30)
            + Pts(clima_dest.precipitation.n > 5, 40)
            + Pts(dado.velocity.n * 36 < 6000
                  /\ dado.baro_altitude.n * 82021 > 20000 * 25000, 20)
            + Pts(minutos_restantes > 120, 10)

\* All four rules match and add up to 100.
C1_AllRulesFire ==
    /\ pc = "done"
    /\ clima_dest.wind_speed_10m.n > 250
    /\ clima_dest.precipitation.n > 5
    /\ dado.velocity.n = 166 /\ dado.baro_altitude.n = 6096
    /\ minutos_restantes > 120 /\ minutos_restantes # ETA_SENTINEL
    /\ risco_score = 100

\* C2 as stated: HTTP success with no traffic (states null or absent, or every
\* record filtered out) yields a result tagged Live.
C2_NoTrafficIsLive ==
    (called /\ NoTraffic(feed)) => ret.is_real

\* C2 amended: HTTP success with no traffic takes the simulated fallback and
\* is tagged Simulated; a result is tagged Live only when the payload is a
\* states list of which at least one record survives the filters.
C2_NoTrafficFallsBack ==
    called =>
        /\ NoTraffic(feed) => (~ret.is_real /\ Synthetic(ret.df))
        /\ ret.is_real =>
              /\ IsStatesList(feed)
              /\ \E i \in 1..Len(feed.body.states) : Survives(feed.body.states[i])
              /\ ret.df # <<>>

\* HTTP 200 with records, all of them filtered out, answered with fake rows.
C2_FilteredOutGivesSimulated ==
    /\ called
    /\ IsStatesList(feed) /\ Len(feed.body.states) = MaxRecords
    /\ NoTraffic(feed)
    /\ ~ret.is_real /\ Synthetic(ret.df)

\* C3: whatever the single request ends in, get_live_flights returns without
\* raising, after exactly one request; on a timeout, a connection error, a
\* non-200 status or a malformed payload it returns generated rows tagged
\* Simulated.
C3_FailuresDegradeToSimulated ==
    called =>
        /\ ~raised
        /\ attempts = 1
        /\ FeedFailure(feed) => (~ret.is_real /\ Synthetic(ret.df))

\* A 200 answer whose body is not JSON ends in the simulated rows.
C3_MalformedPayloadSimulated ==
    /\ called /\ ~raised
    /\ feed = Http(200, NotJson)
    /\ ~ret.is_real /\ Synthetic(ret.df)

\* C4 as stated: every returned observation has a position, a non-empty
\* callsign and an altitude above 0 m.
C4_ObservationInvariant ==
    called =>
        \A i \in 1..Len(ret.df) :
            /\ ~IsNull(ret.df[i].latitude) /\ ~IsNull(ret.df[i].longitude)
            /\ IsStr(ret.df[i].callsign) /\ ret.df[i].callsign.s # <<>>
            /\ IsNum(ret.df[i].baro_altitude) /\ ret.df[i].baro_altitude.n > 0

\* k * x <= l * y, exactly, for doubles x, y >= 0 and natural numbers k, l
\* given as limbs: both sides are scaled to whole multiples of the smaller
\* unit in the last place.
Scaled(x, k, lo) == BShl(BMul(x.m, k), x.e - lo)
TimesLeq(k, x, l, y) ==
    BCmp(Scaled(x, k, Min(x.e, y.e)), Scaled(y, l, Min(x.e, y.e))) <= 0

\* The relative error two rounded operations can add up to is below 2^-51.
Tol == BShl(<<1>>, 51)

\* C5 as stated: with a speed of 0 km/h or less the ETA is the sentinel; with
\* a positive speed it is dist_km / vel_kmh * 60 cut to an integer m, that is
\* m <= dist_km * 60 / vel_kmh < m + 1 for the dist_km and the vel_kmh the
\* script holds, and m is not negative.
C5_EtaGuard ==
    (pc = "done" \/ (pc = "raised" /\ exc # "get_weather")) =>
        /\ dado.velocity.n * 36 <= 0 => minutos_restantes = ETA_SENTINEL
        /\ dado.velocity.n * 36 > 0 =>
              /\ minutos_restantes >= 0
              /\ TimesLeq(BFromInt(minutos_restantes), VelKmh(dado.velocity.n),
                          BFromInt(60), dist_km)
              /\ ~TimesLeq(BFromInt(minutos_restantes + 1), VelKmh(dado.velocity.n),
                           BFromInt(60), dist_km)

\* C5 as the code has it: with a speed of 0 km/h or less the ETA is the
\* sentinel; with a positive speed the ETA m is not negative and is the
\* quotient q = dist_km * 60 / vel_kmh cut to an integer up to the rounding
\* of the division and of the product: m <= q * (1 + 2^-51) and
\* q * (1 - 2^-51) < m + 1.
C5_EtaGuardInDoubles ==
    (pc = "done" \/ (pc = "raised" /\ exc # "get_weather")) =>
        /\ dado.velocity.n * 36 <= 0 => minutos_restantes = ETA_SENTINEL
        /\ dado.velocity.n * 36 > 0 =>
              /\ minutos_restantes >= 0
              /\ TimesLeq(BMul(BFromInt(minutos_restantes), Tol),
                          VelKmh(dado.velocity.n),
                          BMulSmall(BAdd(Tol, <<1>>), 60), dist_km)
              /\ ~TimesLeq(BMul(BFromInt(minutos_restantes + 1), Tol),
                           VelKmh(dado.velocity.n),
                           BMulSmall(BSub(Tol, <<1>>), 60), dist_km)

\* An aircraft a little less than m minutes out is given m minutes: the ETA
\* is above the exact quotient.
C5_RoundsAboveExactQuotient ==
    /\ pc = "done"
    /\ dado.velocity.n > 0
    /\ ~TimesLeq(BFromInt(minutos_restantes), VelKmh(dado.velocity.n),
                 BFromInt(60), dist_km)

\* C6 as stated: no answer of the weather service aborts the evaluation, and
\* a failed lookup is replaced by the fallback snapshot.
C6_WeatherNeverAborts ==
    /\ pc # "raised"
    /\ (pc \in {"weather", "done"}
        /\ (resp.kind # "http" \/ ~resp.body.json \/ ~resp.body.has_current))
       => clima_dest = WeatherFallback

\* C7 as stated: a payload with a str or null speed/altitude cell, and with a
\* record that passes the filters, still yields the Live frame of the records
\* that pass (the bad cell counting as 0.0, its record is filtered out).
C7_BadCellsAreCoerced ==
    (/\ called
     /\ IsStatesList(feed) /\ FrameOk(feed.body.states)
     /\ \E i \in 1..Len(feed.body.states) :
           ~IsNum(feed.body.states[i].baro_altitude)
           \/ ~IsNum(feed.body.states[i].velocity)
     /\ \E i \in 1..Len(feed.body.states) : Survives(feed.body.states[i]))
    => /\ ~raised
       /\ ret.is_real
       /\ Len(ret.df) =
             Cardinality({i \in 1..Len(feed.body.states) :
                             Survives(feed.body.states[i])})

\* A step that is a call of get_live_flights: a call resets sinceCall, and
\* Tick always leaves it above 0.
IsCall == sinceCall' = 0

\* C8 as stated: a call less than 30 s after the previous call returns what
\* the previous call returned and issues no request.
C8_CallsWithinWindowAgree ==
    [][(IsCall /\ sinceCall < TTL) => (ret' = ret /\ attempts' = 0)]_vars

\* C8 amended: a call less than 30 s after the call that stored the cache
\* entry (the last call that ran the function) returns the provenance and rows
\* of that call and issues no request, for Live and Simulated results alike.
C8_CallsWithinEntryWindowAgree ==
    [][(IsCall /\ cache.valid /\ age < TTL)
          => /\ ret' = ret
             /\ ret' = [df |-> cache.df, is_real |-> cache.is_real]
             /\ attempts' = 0
             /\ UNCHANGED cache]_vars

\* A Simulated result served again from the cache, some time after it was
\* generated.
C8_SimulatedServedFromCache ==
    /\ hit /\ attempts = 0
    /\ age > 0 /\ age < TTL
    /\ ~ret.is_real /\ Synthetic(ret.df)

\* C9 as stated: a call made while the feed is failing never returns Live.
C9_FailingFeedNeverLive ==
    (called /\ FeedFailing(feed)) => ~ret.is_real

\* C9 amended: a call made while the feed is failing returns Live exactly when
\* it is served from the cache entry of a Live result stored less than 30 s
\* before; from 30 s on it returns Simulated.
C9_FailingFeedLiveOnlyFromFreshEntry ==
    [][(IsCall /\ FeedFailing(feed'))
          => (ret'.is_real <=> (cache.valid /\ cache.is_real /\ age < TTL))]_vars

\* The feed times out and the call still answers Live, from the cache.
C9_CachedLiveWhileFailing ==
    /\ hit /\ feed = Timeout
    /\ ret.is_real /\ age < TTL

\* C10: with a speed of 0 km/h or less the sentinel ETA exceeds the
\* long-flight threshold, so the score is at least 10 whatever the distance
\* and the weather.
C10_SentinelCountsAsLongFlight ==
    (pc = "done" /\ dado.velocity.n * 36 <= 0) => risco_score >= 10

\* Zero speed, zero distance, calm weather: the score is the 10 points alone.
C10_StationaryAtDestination ==
    /\ pc = "done"
    /\ dado.velocity.n = 0 /\ dist_km = DoubleZero
    /\ clima_dest = WeatherFallback
    /\ risco_score = 10 /\ fatores = <<>>

====
